---------------------------- MODULE Spec2Model ----------------------------
(***************************************************************************)
(* A model of startspring (github.com/nhAnik/startspring):                 *)
(*   - the program's tea.Model of the ui file (Update, generateProject     *)
(*     and the name validation of the form),                               *)
(*   - the version-interval model of main.go (VersionRange.UnmarshalJSON   *)
(*     and VersionRange.contains, on top of hashicorp/go-version),         *)
(*   - the dependency filter of the form (getDepsOpts and the Validate     *)
(*     callback of the "Spring Boot version" select),                      *)
(*   - the archive materializer unzip of main.go.                          *)
(*                                                                         *)
(* Strings are sequences of one-character strings, so that the byte        *)
(* slicing of UnmarshalJSON and the parsing of NewSemver are computed,     *)
(* not assumed.                                                            *)
(***************************************************************************)
EXTENDS Integers, Sequences, FiniteSets, TLC

VARIABLES
    \* ---- version-interval model (SpecRange) ----
    rpc,        \* position: "decode" | "decoded" | "returned", or where it
                \* panicked: "decodePanicked" | "containsPanicked"
    shape,      \* the documented shape the metadata value was written in
    raw,        \* the JSON value handed to UnmarshalJSON, quotes included
    vr,         \* the VersionRange receiver
    cand,       \* the candidate version handed to contains
    ret,        \* the value contains returned (meaningful when rpc = "returned")
    \* ---- dependency filter of the form (SpecForm) ----
    fpc,        \* "form" while the form runs, "panicked" once Validate panicked
    deps,       \* data.Dependencies.Values: groups of components
    options,    \* the options the "Add dependencies" multi-select holds
    validated,  \* the version last handed to Validate, <<>> before the first
    \* ---- archive materializer (SpecUnzip) ----
    upc,        \* position in unzip: "NewReader" | "Mkdir" | "loop" | "returned"
    body,       \* the archive: whether the bytes are a zip, and its entries
    projectName, \* the target directory name, as path tokens
    privileged, \* whether the process bypasses permission checks (root)
    fs0,        \* the filesystem when unzip was called
    fs,         \* the filesystem: path -> node
    idx,        \* index of the entry the loop is at
    epc,        \* where the loop body is for that entry: "Open" |
                \* "MkdirAll" | "OpenFile" | "Copy"
    uerr,       \* the error unzip returned ("nil" for none)
    openReaders, \* entries whose reader (zf.Open) is open
    openFiles,  \* entries whose output file (os.OpenFile) is open
    \* ---- the program's tea.Model (SpecUI) ----
    state,      \* m.state: "stateForm" | "stateSpinner" | "stateDone"
    formState,  \* m.form.State: "normal" | "completed"
    infoName,   \* m.info.name, the text of the "Name of the project" input
    nameErr,    \* what nameValidate said of infoName: "unvalidated" while the
                \* text is edited, else its result
    isQuitting, \* m.isQuitting
    finalMsg,   \* m.finalMsg
    quitIssued, \* a tea.Quit command was returned and its QuitMsg is on its way
    run,        \* the program: "running" | "quit" (the event loop handled a
                \* QuitMsg, Run and main return) | "panicked"
    ticks,      \* spinner tick commands issued and not yet delivered
    gpc,        \* the command generateProject returned: "idle" | "issued" |
                \* "request" | "read" | "unzip" | "returned" | "delivered"
    resp,       \* what the generator service answered the command
    genErr,     \* the err of the errMsg the command returns ("nil" for none)
    starts,     \* how many times generateProject was issued
    unzips      \* how many times unzip was called

rangeVars == <<rpc, shape, raw, vr, cand, ret>>
formVars == <<fpc, deps, options, validated>>
unzipVars == <<upc, body, projectName, privileged, fs0, fs, idx, epc, uerr,
               openReaders, openFiles>>

uiVars == <<state, formState, infoName, nameErr, isQuitting, finalMsg,
            quitIssued, run,
            ticks, gpc, resp, genErr, starts, unzips>>

vars == <<rangeVars, formVars, unzipVars, uiVars>>

-----------------------------------------------------------------------------
(* Bounds of the model *)

\* the largest number a segment of an input version holds
MaxNum == 1

\* the longest dotted version a bound of the metadata holds, in segments
MaxBoundSegments == 2

\* the longest dotted version a candidate holds, in segments
MaxSegments == 3

\* the most groups of components the metadata declares
MaxGroups == 2

\* the most components a group declares
MaxGroupSize == 2

\* the most entries an archive holds
MaxEntries == 3

-----------------------------------------------------------------------------
(* Characters and strings *)

Digits == {"0", "1", "2", "3", "4", "5", "6", "7", "8", "9"}

DigitVal(c) ==
    CASE c = "0" -> 0 [] c = "1" -> 1 [] c = "2" -> 2 [] c = "3" -> 3
      [] c = "4" -> 4 [] c = "5" -> 5 [] c = "6" -> 6 [] c = "7" -> 7
      [] c = "8" -> 8 [] c = "9" -> 9

\* Go's b[lo:hi] on a 0-indexed slice, as a 1-indexed sequence
Slice(b, lo, hi) == SubSeq(b, lo + 1, hi)

\* Go's b[i] on a 0-indexed slice
At(b, i) == b[i + 1]

\* the index of the first occurrence of c in b at or after i, or Len(b) if none
RECURSIVE IndexFrom(_, _, _)
IndexFrom(b, c, i) ==
    IF i >= Len(b) THEN Len(b)
    ELSE IF At(b, i) = c THEN i
    ELSE IndexFrom(b, c, i + 1)

RECURSIVE Split(_, _)
\* strings.Split(s, sep) for a one-character separator
Split(s, sep) ==
    LET i == IndexFrom(s, sep, 0)
    IN  IF i = Len(s) THEN <<s>>
        ELSE <<Slice(s, 0, i)>> \o Split(Slice(s, i + 1, Len(s)), sep)

\* a JSON string value as the decoder hands it over: the text between quotes
Quote(s) == <<"\"">> \o s \o <<"\"">>

-----------------------------------------------------------------------------
(* github.com/hashicorp/go-version, as far as contains uses it.            *)
(* The strings of the model hold digits, '.', and characters that are none *)
(* of 'v', '-', '+', '~': on these the semver pattern                      *)
(*   ^v?([0-9]+(\.[0-9]+)*?)(-prerelease)?(\+metadata)?$                   *)
(* accepts exactly the dotted numbers, and no version has a prerelease.    *)

\* the nil *Version that NewSemver returns with an error
NilVersion == <<>>

IsNumber(seg) == Len(seg) > 0 /\ \A i \in 1..Len(seg) : seg[i] \in Digits

RECURSIVE ParseInt(_)
\* strconv.ParseInt(seg, 10, 64) of a digit string (short enough not to overflow)
ParseInt(seg) ==
    IF Len(seg) = 0 THEN 0
    ELSE 10 * ParseInt(SubSeq(seg, 1, Len(seg) - 1)) + DigitVal(seg[Len(seg)])

\* the segments padded with zeros to MAJOR.MINOR.PATCH at the minimum
Pad3(segs) ==
    IF Len(segs) >= 3 THEN segs
    ELSE segs \o [i \in 1..(3 - Len(segs)) |-> 0]

\* version.NewSemver(v): the segments of the version, or nil when v is malformed
NewSemver(v) ==
    LET parts == Split(v, ".")
    IN  IF \A i \in 1..Len(parts) : IsNumber(parts[i])
        THEN Pad3([i \in 1..Len(parts) |-> ParseInt(parts[i])])
        ELSE NilVersion

RECURSIVE CompareFrom(_, _, _)
\* the segment loop of Version.Compare, from (0-based) index i
CompareFrom(a, b, i) ==
    LET hS == IF Len(a) < Len(b) THEN Len(b) ELSE Len(a)
        allZero(s, from) == \A k \in (from + 1)..Len(s) : s[k] = 0
    IN  IF i >= hS THEN 0
        ELSE IF i > Len(a) - 1 THEN (IF allZero(b, i) THEN 0 ELSE -1)
        ELSE IF i > Len(b) - 1 THEN (IF allZero(a, i) THEN 0 ELSE 1)
        ELSE IF At(a, i) = At(b, i) THEN CompareFrom(a, b, i + 1)
        ELSE IF At(a, i) < At(b, i) THEN -1
        ELSE 1

\* Version.Compare on two non-nil versions without prerelease
Compare(a, b) == CompareFrom(a, b, 0)

LessThan(a, b) == Compare(a, b) < 0
LessThanOrEqual(a, b) == Compare(a, b) <= 0
GreaterThan(a, b) == Compare(a, b) > 0
GreaterThanOrEqual(a, b) == Compare(a, b) >= 0

-----------------------------------------------------------------------------
(* VersionRange *)

\* the zero value of the struct, as json.Decode allocates it
ZeroRange == [Lower |-> <<>>, Upper |-> <<>>,
              LowerInclude |-> FALSE, UpperInclude |-> FALSE]

\* containsPanics without the early return for the universal range
containsPanicsNoEarlyReturn(r, v) ==
    \/ NewSemver(v) = NilVersion
    \/ r.Lower # <<>> /\ NewSemver(r.Lower) = NilVersion
    \/ r.Upper # <<>> /\ NewSemver(r.Upper) = NilVersion

\* whether contains(v) dereferences a nil *Version: past the early return,
\* Compare is called on bv and on every present bound
containsPanics(r, v) ==
    /\ ~(r.Lower = <<>> /\ r.Upper = <<>>)
    /\ \/ NewSemver(v) = NilVersion
       \/ r.Lower # <<>> /\ NewSemver(r.Lower) = NilVersion
       \/ r.Upper # <<>> /\ NewSemver(r.Upper) = NilVersion

\* the lower-bound test of contains: lowerOk
lowerOk(r, bv) ==
    IF r.Lower # <<>>
    THEN LET lv == NewSemver(r.Lower)
         IN  ~(LessThanOrEqual(bv, lv) \/ (r.LowerInclude /\ LessThan(bv, lv)))
    ELSE TRUE

\* the upper-bound test of contains: upperOk
upperOk(r, bv) ==
    IF r.Upper # <<>>
    THEN LET uv == NewSemver(r.Upper)
         IN  ~(GreaterThanOrEqual(bv, uv) \/ (r.UpperInclude /\ GreaterThan(bv, uv)))
    ELSE TRUE

\* VersionRange.contains(v), where it does not panic
contains(r, v) ==
    IF r.Lower = <<>> /\ r.Upper = <<>> THEN TRUE
    ELSE LET bv == NewSemver(v)
         IN  lowerOk(r, bv) /\ upperOk(r, bv)

\* whether UnmarshalJSON(b) indexes or slices out of range
UnmarshalPanics(b) ==
    \/ Len(b) < 2
    \/ LET b1 == Slice(b, 1, Len(b) - 1)
       IN  \/ Len(b1) = 0
           \/ /\ At(b1, 0) \in {"[", "("}
              /\ IndexFrom(b1, ",", 0) < Len(b1)
              /\ IndexFrom(b1, ",", 0) + 1 > Len(b1) - 1

\* UnmarshalJSON with the upper bound sliced to the end: the bracket kept
UnmarshalJSONKeepsBracket(r, b) ==
    LET b1 == Slice(b, 1, Len(b) - 1)
        n  == Len(b1)
        i  == IndexFrom(b1, ",", 0)
    IN  IF At(b1, 0) \in {"[", "("}
        THEN [Lower |-> IF i < n THEN Slice(b1, 1, i) ELSE r.Lower,
              Upper |-> IF i < n THEN Slice(b1, i + 1, n) ELSE r.Upper,
              LowerInclude |-> r.LowerInclude \/ At(b1, 0) = "[",
              UpperInclude |-> r.UpperInclude \/ At(b1, n - 1) = "]"]
        ELSE [Lower |-> b1, Upper |-> r.Upper,
              LowerInclude |-> TRUE, UpperInclude |-> r.UpperInclude]

\* VersionRange.UnmarshalJSON(b) on receiver r, where it does not panic
UnmarshalJSON(r, b) ==
    LET b1 == Slice(b, 1, Len(b) - 1)
        n  == Len(b1)
        i  == IndexFrom(b1, ",", 0)
    IN  IF At(b1, 0) \in {"[", "("}
        THEN [Lower |-> IF i < n THEN Slice(b1, 1, i) ELSE r.Lower,
              Upper |-> IF i < n THEN Slice(b1, i + 1, n - 1) ELSE r.Upper,
              LowerInclude |-> r.LowerInclude \/ At(b1, 0) = "[",
              UpperInclude |-> r.UpperInclude \/ At(b1, n - 1) = "]"]
        ELSE [Lower |-> b1, Upper |-> r.Upper,
              LowerInclude |-> TRUE, UpperInclude |-> r.UpperInclude]

-----------------------------------------------------------------------------
(* Inputs of the version-interval model *)

Digit(n) == CASE n = 0 -> "0" [] n = 1 -> "1" [] n = 2 -> "2" [] n = 3 -> "3"
              [] n = 4 -> "4" [] n = 5 -> "5" [] n = 6 -> "6" [] n = 7 -> "7"
              [] n = 8 -> "8" [] n = 9 -> "9"

RECURSIVE Dotted(_)
\* the text of a version from its (one-digit) segments
Dotted(segs) ==
    IF Len(segs) = 1 THEN <<Digit(segs[1])>>
    ELSE Dotted(SubSeq(segs, 1, Len(segs) - 1)) \o <<".", Digit(segs[Len(segs)])>>

SeqsOfLen(S, n) == [1..n -> S]

\* well-formed versions of at most n segments
VersionsUpTo(n) ==
    UNION {{Dotted(s) : s \in SeqsOfLen(0..MaxNum, k)} : k \in 1..n}

\* texts that are no semantic version
Malformed == {<<"x">>, <<"1", ".", "x">>}

\* a two-digit segment: compared as a number, not as text
TwoDigit == <<"1", "0">>

\* what the metadata may hold as a bound
BoundTokens == VersionsUpTo(MaxBoundSegments) \cup {<<"1", ".", "x">>}

\* what contains may be asked about
Candidates == VersionsUpTo(MaxSegments) \cup Malformed \cup {TwoDigit}

\* a value of "versionRange" by its documented shape: a bare token lo (the
\* empty string when lo is empty), or a pair open lo , hi close
Bare(lo) == [kind |-> "bare", open |-> "", lo |-> lo, hi |-> <<>>, close |-> ""]
Pair(o, lo, hi, c) == [kind |-> "pair", open |-> o, lo |-> lo, hi |-> hi, close |-> c]

\* the component has no "versionRange" key
Absent == [kind |-> "absent", open |-> "", lo |-> <<>>, hi |-> <<>>, close |-> ""]

\* the text of a shape
Text(sh) ==
    IF sh.kind = "pair"
    THEN <<sh.open>> \o sh.lo \o <<",">> \o sh.hi \o <<sh.close>>
    ELSE sh.lo

Shapes ==
    {Bare(t) : t \in {<<>>} \cup BoundTokens \cup {TwoDigit}}
      \cup {Pair(o, lo, hi, c) :
               o \in {"[", "("}, c \in {"]", ")"},
               lo \in BoundTokens \cup {<<>>}, hi \in BoundTokens \cup {<<>>}}
      \cup {Absent}

\* raw when the component has no "versionRange" key: UnmarshalJSON is not called
NoKey == <<>>

-----------------------------------------------------------------------------
(* The version-interval model as a state machine: decode, then ask *)

\* what getProjectZip and io.ReadAll give generateProject: the error of the
\* request, the status code, the error of reading the body, and the body
Response(err, status, readErr, b) ==
    [err |-> err, StatusCode |-> status, readErr |-> readErr, body |-> b]

\* the bytes of a response that are no zip archive
NotAZip == [valid |-> FALSE, File |-> <<>>]

\* no request has been made
NoResponse == Response("nil", 0, "nil", NotAZip)

\* the program's tea.Model is not part of this specification
UIIdle ==
    /\ state = "off" /\ formState = "normal" /\ infoName = <<>>
    /\ nameErr = "unvalidated" /\ isQuitting = FALSE /\ finalMsg = ""
    /\ quitIssued = FALSE
    /\ run = "off" /\ ticks = 0 /\ gpc = "idle" /\ resp = NoResponse
    /\ genErr = "nil" /\ starts = 0 /\ unzips = 0

\* the form is not part of this specification
FormIdle == fpc = "off" /\ deps = <<>> /\ options = <<>> /\ validated = <<>>

\* unzip is not part of this specification
UnzipIdle ==
    /\ upc = "off" /\ body = [valid |-> FALSE, File |-> <<>>]
    /\ projectName = <<>> /\ privileged = FALSE
    /\ fs0 = <<>> /\ fs = <<>> /\ idx = 0 /\ epc = "Open" /\ uerr = "nil"
    /\ openReaders = {} /\ openFiles = {}

RangeInit ==
    /\ FormIdle
    /\ UnzipIdle
    /\ UIIdle
    /\ cand \in Candidates
    /\ vr = ZeroRange
    /\ ret = FALSE
    /\ shape \in Shapes
    /\ IF shape = Absent
       THEN raw = NoKey /\ rpc = "decoded"
       ELSE raw = Quote(Text(shape)) /\ rpc = "decode"

\* json.Decode calls UnmarshalJSON on the fresh VersionRange
Decode ==
    /\ rpc = "decode"
    /\ IF UnmarshalPanics(raw)
       THEN rpc' = "decodePanicked" /\ vr' = vr
       ELSE rpc' = "decoded" /\ vr' = UnmarshalJSON(vr, raw)
    /\ UNCHANGED <<shape, raw, cand, ret, formVars, unzipVars, uiVars>>

\* vr.contains(cand)
Contains ==
    /\ rpc = "decoded"
    /\ IF containsPanics(vr, cand)
       THEN rpc' = "containsPanicked" /\ ret' = ret
       ELSE rpc' = "returned" /\ ret' = contains(vr, cand)
    /\ UNCHANGED <<shape, raw, vr, cand, formVars, unzipVars, uiVars>>

RangeNext == Decode \/ Contains

SpecRange == RangeInit /\ [][RangeNext]_vars

-----------------------------------------------------------------------------
(* Claims about the version-interval model, checked under SpecRange *)

\* contains has been called and has returned or panicked
Asked == rpc \in {"returned", "containsPanicked"}

\* UnmarshalJSON has been called on raw and has returned
Decoded == raw # NoKey /\ rpc \in {"decoded", "returned", "containsPanicked"}

LowerPresent == vr.Lower # <<>>
UpperPresent == vr.Upper # <<>>

\* the documented rule of a bound: absent, strictly inside, or equal and inclusive
DocLowerOk(r, bv) ==
    \/ r.Lower = <<>>
    \/ Compare(bv, NewSemver(r.Lower)) > 0
    \/ r.LowerInclude /\ Compare(bv, NewSemver(r.Lower)) = 0

DocUpperOk(r, bv) ==
    \/ r.Upper = <<>>
    \/ Compare(bv, NewSemver(r.Upper)) < 0
    \/ r.UpperInclude /\ Compare(bv, NewSemver(r.Upper)) = 0

\* C1: an inclusive bound accepts the bound itself (where the other bound
\* does not reject it) and rejects every version beyond it:
\* contains(L) is true and contains(v) is false for v < L when LowerInclude,
\* contains(U) is true and contains(v) is false for v > U when UpperInclude.
InclusiveBoundsAcceptEquality ==
    rpc = "returned" =>
        LET bv == NewSemver(cand)
        IN  /\ (LowerPresent /\ vr.LowerInclude) =>
                 /\ (Compare(bv, NewSemver(vr.Lower)) < 0 => ret = FALSE)
                 /\ (Compare(bv, NewSemver(vr.Lower)) = 0 /\ DocUpperOk(vr, bv)
                        => ret = TRUE)
            /\ (UpperPresent /\ vr.UpperInclude) =>
                 /\ (Compare(bv, NewSemver(vr.Upper)) > 0 => ret = FALSE)
                 /\ (Compare(bv, NewSemver(vr.Upper)) = 0 /\ DocLowerOk(vr, bv)
                        => ret = TRUE)

\* C2: an exclusive bound rejects the bound itself and accepts every version
\* strictly inside it that also satisfies the other bound.
ExclusiveBoundsStrictInterior ==
    rpc = "returned" =>
        LET bv == NewSemver(cand)
        IN  /\ (LowerPresent /\ ~vr.LowerInclude) =>
                 /\ (Compare(bv, NewSemver(vr.Lower)) = 0 => ret = FALSE)
                 /\ (Compare(bv, NewSemver(vr.Lower)) > 0 /\ DocUpperOk(vr, bv)
                        => ret = TRUE)
            /\ (UpperPresent /\ ~vr.UpperInclude) =>
                 /\ (Compare(bv, NewSemver(vr.Upper)) = 0 => ret = FALSE)
                 /\ (Compare(bv, NewSemver(vr.Upper)) < 0 /\ DocLowerOk(vr, bv)
                        => ret = TRUE)

\* C3: decoding the empty string "" does not fail and yields the universal
\* interval, Lower and Upper both empty.
EmptyStringIsUniversal ==
    (raw = Quote(<<>>) /\ rpc # "decode") =>
        /\ rpc # "decodePanicked"
        /\ vr.Lower = <<>> /\ vr.Upper = <<>>

\* vr without the bounds that are no semantic version
WithoutMalformedBounds(r) ==
    [r EXCEPT
       !.Lower = IF NewSemver(r.Lower) = NilVersion THEN <<>> ELSE r.Lower,
       !.Upper = IF NewSemver(r.Upper) = NilVersion THEN <<>> ELSE r.Upper]

\* C4: a present bound that is no semantic version is treated as absent:
\* contains does not panic, and answers as for the range without that bound.
MalformedBoundIsAbsent ==
    (Asked /\ NewSemver(cand) # NilVersion
           /\ WithoutMalformedBounds(vr) # vr) =>
        /\ rpc = "returned"
        /\ ret = contains(WithoutMalformedBounds(vr), cand)

\* C5: a bare token T decodes to Lower = T, LowerInclude, no upper bound; a
\* bracketed open lo , hi close decodes to Lower = lo, Upper = hi,
\* LowerInclude iff open is '[', UpperInclude iff close is ']'; lo and hi may
\* be empty, and the text of a bound is kept as it is.
ParseMapsDocumentedShapes ==
    (shape # Absent /\ rpc # "decode" /\ Text(shape) # <<>>) =>
        /\ Decoded
        /\ shape.kind = "bare" =>
             vr = [Lower |-> shape.lo, Upper |-> <<>>,
                   LowerInclude |-> TRUE, UpperInclude |-> FALSE]
        /\ shape.kind = "pair" =>
             vr = [Lower |-> shape.lo, Upper |-> shape.hi,
                   LowerInclude |-> (shape.open = "["),
                   UpperInclude |-> (shape.close = "]")]

\* C5's case: a bracketed pair with both bounds, exclusive below and
\* inclusive above, has been decoded
ParsedBracketedPair ==
    /\ Decoded
    /\ shape.kind = "pair" /\ shape.open = "(" /\ shape.close = "]"
    /\ shape.lo # <<>> /\ shape.hi # <<>>

\* C6: with both bounds absent, whatever the flags, contains returns true
\* for every candidate, a malformed one included.
UniversalContainsEverything ==
    (Asked /\ ~LowerPresent /\ ~UpperPresent) =>
        rpc = "returned" /\ ret = TRUE

\* C6's case: contains returned on a universal range with a flag set, for a
\* candidate that is no semantic version
UniversalAskedMalformed ==
    /\ rpc = "returned"
    /\ ~LowerPresent /\ ~UpperPresent /\ vr.LowerInclude
    /\ NewSemver(cand) = NilVersion

-----------------------------------------------------------------------------
(* The dependency filter of the form: newForm of the ui file *)

\* the groups of mt.Values in one list, in declaration order: the order in
\* which the two loops of getDepsOpts visit the components
RECURSIVE Flatten(_)
Flatten(groups) ==
    IF Len(groups) = 0 THEN <<>>
    ELSE Head(groups) \o Flatten(Tail(groups))

\* huh.NewOption(dep.Name, dep.Id)
NewOption(key, value) == [Key |-> key, Value |-> value]

\* getDepsOpts(mt, bootVersion), where no contains panics
getDepsOpts(mt, bootVersion) ==
    LET all  == Flatten(mt)
        kept == SelectSeq(all, LAMBDA dep : contains(dep.VersionRange, bootVersion))
    IN  [i \in 1..Len(kept) |-> NewOption(kept[i].Name, kept[i].Id)]

\* whether getDepsOpts(mt, bootVersion) panics in one of its contains calls
getDepsOptsPanics(mt, bootVersion) ==
    \E i \in 1..Len(Flatten(mt)) :
        containsPanics(Flatten(mt)[i].VersionRange, bootVersion)

\* huh's MultiSelect.Options(new...) on a field holding cur: a call without
\* options returns the field as it is
MultiSelectOptions(cur, new) == IF Len(new) <= 0 THEN cur ELSE new

\* the values of "versionRange" the form's metadata is decoded from
FormRaws == {NoKey,
             Quote(<<"0", ".", "1">>),
             Quote(<<"(", "0", ".", "1", ",", "1", ".", "1", ")">>),
             Quote(<<"[", ",", "1", ".", "0", ")">>),
             Quote(<<"1", ".", "x">>)}

\* the range json.Decode leaves in a component declared with raw
DecodedRange(r) == IF r = NoKey THEN ZeroRange ELSE UnmarshalJSON(ZeroRange, r)

\* the component at place k of group g, declared with raw
Component(g, k, r) ==
    [Id |-> "dep" \o ToString(g) \o "-" \o ToString(k),
     Name |-> "Dependency " \o ToString(g) \o "." \o ToString(k),
     VersionRange |-> DecodedRange(r)]

\* the raws of the groups of at most size components
GroupRaws(size) == UNION {[1..k -> FormRaws] : k \in 0..size}

\* the metadata documents of at most n groups of at most size components,
\* as multiSelectType values
Metadata(n, size) ==
    UNION {{[g \in 1..m |-> [k \in 1..Len(raws[g]) |->
                               Component(g, k, raws[g][k])]] :
              raws \in [1..m -> GroupRaws(size)]} : m \in 0..n}

\* the ids of data.BootVersion.Values that the select offers
BootVersions == VersionsUpTo(MaxBoundSegments)

\* the range model is not part of this specification
RangeIdle ==
    rpc = "off" /\ shape = Absent /\ raw = NoKey /\ vr = ZeroRange /\ cand = <<>> /\ ret = FALSE

\* newForm: the multi-select is built without options
FormInit ==
    /\ RangeIdle
    /\ UnzipIdle
    /\ UIIdle
    /\ fpc = "form"
    /\ deps \in Metadata(MaxGroups, MaxGroupSize)
    /\ options = <<>>
    /\ validated = <<>>

\* the Validate callback of the "Spring Boot version" select
Validate(version) ==
    /\ fpc = "form"
    /\ IF getDepsOptsPanics(deps, version)
       THEN fpc' = "panicked" /\ UNCHANGED <<options, validated>>
       ELSE /\ options' = MultiSelectOptions(options, getDepsOpts(deps, version))
            /\ validated' = version
            /\ fpc' = fpc
    /\ UNCHANGED <<deps, rangeVars, unzipVars, uiVars>>

FormNext == \E version \in BootVersions : Validate(version)

SpecForm == FormInit /\ [][FormNext]_vars

\* C7: after every Validate the options offered are exactly the declared
\* components whose range contains the version last validated, in
\* declaration order, whatever was selected before.
OfferedAreTheCompatible ==
    (fpc = "form" /\ validated # <<>>) =>
        options = getDepsOpts(deps, validated)

-----------------------------------------------------------------------------
(* The filesystem as unzip sees it.                                         *)
(* A path is the sequence of its components from the root; a node is a      *)
(* directory or a file with the owner's permission bits (the umask is       *)
(* taken to leave them) and, for a file, its bytes. There are no symbolic   *)
(* links, so Stat and Lstat agree.                                          *)

RWX == {"r", "w", "x"}
RW  == {"r", "w"}

DirNode(perm) == [kind |-> "dir", perm |-> perm, data |-> <<>>]
FileNode(perm, data) == [kind |-> "file", perm |-> perm, data |-> data]

Root == <<>>

\* os.Getwd(): the working directory, which exists and is the user's own
Cwd == <<"cwd">>

Exists(f, p) == p \in DOMAIN f

\* the parent of a path (the root is its own parent)
Parent(p) == IF Len(p) = 0 THEN p ELSE SubSeq(p, 1, Len(p) - 1)

IsPrefix(a, b) == Len(a) <= Len(b) /\ SubSeq(b, 1, Len(a)) = a

\* path resolution reaches p: every proper ancestor is a directory the
\* process may search
Reaches(f, p, priv) ==
    \A n \in 0..(Len(p) - 1) :
        LET a == SubSeq(p, 1, n)
        IN  /\ Exists(f, a)
            /\ f[a].kind = "dir"
            /\ (priv \/ "x" \in f[a].perm)

\* os.Stat(p): "dir", "file", or "error"
Stat(f, p, priv) ==
    IF Reaches(f, p, priv) /\ Exists(f, p) THEN f[p].kind ELSE "error"

\* the errno of resolving the directory that is to hold p, "nil" if reached
ResolveErr(f, p, priv) ==
    IF Reaches(f, p, priv) THEN "nil"
    ELSE LET n == CHOOSE k \in 0..(Len(p) - 1) :
                    /\ ~Reaches(f, SubSeq(p, 1, k + 1), priv)
                    /\ Reaches(f, SubSeq(p, 1, k), priv)
             a == SubSeq(p, 1, n)
         IN  IF ~Exists(f, a) THEN "ENOENT"
             ELSE IF f[a].kind # "dir" THEN "ENOTDIR"
             ELSE "EACCES"

\* whether the process may add an entry to the directory holding p
MayCreateIn(f, p, priv) == priv \/ {"w", "x"} \subseteq f[Parent(p)].perm

\* os.Mkdir that takes an existing directory for a success
MkdirOrExisting(f, p, perm, priv) ==
    LET e == ResolveErr(f, p, priv)
    IN  IF e # "nil" THEN [fs |-> f, err |-> e]
        ELSE IF Exists(f, p)
             THEN [fs |-> f, err |-> IF f[p].kind = "dir" THEN "nil" ELSE "EEXIST"]
        ELSE IF ~MayCreateIn(f, p, priv) THEN [fs |-> f, err |-> "EACCES"]
        ELSE [fs |-> (p :> DirNode(perm)) @@ f, err |-> "nil"]

\* os.Mkdir(p, perm): the filesystem after it and its error
Mkdir(f, p, perm, priv) ==
    LET e == ResolveErr(f, p, priv)
    IN  IF e # "nil" THEN [fs |-> f, err |-> e]
        ELSE IF Exists(f, p) THEN [fs |-> f, err |-> "EEXIST"]
        ELSE IF ~MayCreateIn(f, p, priv) THEN [fs |-> f, err |-> "EACCES"]
        ELSE [fs |-> (p :> DirNode(perm)) @@ f, err |-> "nil"]

RECURSIVE MkdirAll(_, _, _, _)
\* os.MkdirAll(p, perm): Stat first, then the parent, then Mkdir
MkdirAll(f, p, perm, priv) ==
    LET st == Stat(f, p, priv)
    IN  IF st = "dir" THEN [fs |-> f, err |-> "nil"]
        ELSE IF st = "file" THEN [fs |-> f, err |-> "ENOTDIR"]
        ELSE LET up == IF Len(p) > 1 THEN MkdirAll(f, Parent(p), perm, priv)
                       ELSE [fs |-> f, err |-> "nil"]
             IN  IF up.err # "nil" THEN up
                 ELSE LET made == Mkdir(up.fs, p, perm, priv)
                      IN  IF made.err # "nil" /\ Stat(made.fs, p, priv) = "dir"
                          THEN [fs |-> made.fs, err |-> "nil"]
                          ELSE made

\* os.OpenFile(p, O_WRONLY|O_CREATE|O_TRUNC, perm): an existing file is
\* truncated and keeps its mode, a missing one is created empty
OpenFile(f, p, perm, priv) ==
    LET e == ResolveErr(f, p, priv)
    IN  IF e # "nil" THEN [fs |-> f, err |-> e]
        ELSE IF Exists(f, p)
             THEN IF f[p].kind = "dir" THEN [fs |-> f, err |-> "EISDIR"]
                  ELSE IF ~(priv \/ "w" \in f[p].perm) THEN [fs |-> f, err |-> "EACCES"]
                  ELSE [fs |-> [f EXCEPT ![p].data = <<>>], err |-> "nil"]
        ELSE IF ~MayCreateIn(f, p, priv) THEN [fs |-> f, err |-> "EACCES"]
        ELSE [fs |-> (p :> FileNode(perm, <<>>)) @@ f, err |-> "nil"]

\* io.Copy that writes nothing
CopyNothing(f, p, data) == f

\* io.Copy(file at p, reader): the bytes read are appended to the open file
Copy(f, p, data) == [f EXCEPT ![p].data = @ \o data]

-----------------------------------------------------------------------------
(* Paths of archive entries.                                                *)
(* A name is a sequence of tokens: "/" separates components, every other    *)
(* token is one component ("..", ".", "a.txt").                             *)

RECURSIVE CleanFrom(_, _)
\* filepath.Clean on the components left, below the absolute path acc
CleanFrom(comps, acc) ==
    IF Len(comps) = 0 THEN acc
    ELSE LET c == Head(comps)
         IN  IF c = <<>> \/ c = <<".">> THEN CleanFrom(Tail(comps), acc)
             ELSE IF c = <<"..">> THEN CleanFrom(Tail(comps), Parent(acc))
             ELSE CleanFrom(Tail(comps), acc \o c)

\* filepath.Join(dir, names...) for an absolute, clean dir: the names are
\* joined by separators and the result is cleaned
Join2(dir, name) == CleanFrom(Split(name, "/"), dir)
Join3(dir, name1, name2) == CleanFrom(Split(name1 \o <<"/">> \o name2, "/"), dir)

\* zf.FileInfo().IsDir(): a name that ends with a separator
IsDir(zf) == Len(zf.Name) > 0 /\ zf.Name[Len(zf.Name)] = "/"

-----------------------------------------------------------------------------
(* Archives *)

\* an entry of zipReader.File: its name, the permission bits of zf.Mode(),
\* the bytes its reader delivers, and whether zf.Open or the read fails
Entry(name, perm, data, fault) ==
    [Name |-> name, Perm |-> perm, Data |-> data, Fault |-> fault]

\* the entries archives are made of: files at the top and nested, directory
\* entries, a name that climbs out with "..", an absolute name, a file named
\* as a directory of other entries, an executable, and two damaged entries
EntryPool ==
    {Entry(<<"a.txt">>, RW, <<1>>, "none"),
     Entry(<<"dir", "/", "b.txt">>, RW, <<2, 2>>, "none"),
     Entry(<<"dir", "/">>, RWX, <<>>, "none"),
     Entry(<<"emptydir", "/">>, RWX, <<>>, "none"),
     Entry(<<"..", "/", "x">>, RW, <<3>>, "none"),
     Entry(<<"/", "a.txt">>, RW, <<4>>, "none"),
     Entry(<<"dir">>, RW, <<5>>, "none"),
     Entry(<<"dir", "/", "run">>, RWX, <<6>>, "none"),
     Entry(<<"bad.bin">>, RW, <<>>, "open"),
     Entry(<<"cut.bin">>, RW, <<7>>, "read")}

RECURSIVE ArchivesOfLen(_)
\* sequences of exactly n distinct entries of the pool
ArchivesOfLen(n) ==
    IF n = 0 THEN {<<>>}
    ELSE {Append(a, e) : <<a, e>> \in
            {<<a, e>> \in ArchivesOfLen(n - 1) \X EntryPool :
                \A i \in 1..Len(a) : a[i] # e}}

\* sequences of at most n distinct entries of the pool
Archives(n) == UNION {ArchivesOfLen(k) : k \in 0..n}

\* the bytes handed to unzip: a zip archive with its entries, or no archive
Bodies ==
    {[valid |-> TRUE, File |-> a] : a \in Archives(MaxEntries)}
      \cup {[valid |-> FALSE, File |-> <<>>]}

\* the filesystems unzip may be called in: the working directory, with the
\* target absent, a directory or a file, and a file "x" beside it or not
Filesystems(target) ==
    LET base == (Root :> DirNode(RWX)) @@ (Cwd :> DirNode(RWX))
        outside == Cwd \o <<"x">>
    IN  {base @@ t @@ o :
           t \in {<<>>, target :> DirNode(RWX), target :> FileNode(RW, <<9>>)},
           o \in {<<>>, outside :> FileNode(RW, <<9, 9>>)}}

-----------------------------------------------------------------------------
(* unzip(body, projectName) as a process *)

Target == Join2(Cwd, projectName)

\* the path unzip computes for an entry: fpath
Fpath(zf) == Join3(Cwd, projectName, zf.Name)

UnzipInit ==
    /\ RangeIdle
    /\ FormIdle
    /\ UIIdle
    /\ upc = "NewReader"
    /\ body \in Bodies
    /\ projectName = <<"proj">>
    /\ privileged \in BOOLEAN
    /\ fs0 \in Filesystems(Join2(Cwd, <<"proj">>))
    /\ fs = fs0
    /\ idx = 0
    /\ epc = "Open"
    /\ uerr = "nil"
    /\ openReaders = {}
    /\ openFiles = {}

\* return err: the deferred f.Close() calls run, the readers stay open
Return(err) ==
    /\ upc' = "returned"
    /\ uerr' = err
    /\ openFiles' = {}

\* zip.NewReader before anything else, but after the target directory is made
UnzipNewReaderAfterMkdir ==
    /\ upc = "NewReader"
    /\ fs' = Mkdir(fs, Target, RWX, privileged).fs
    /\ IF body.valid
       THEN upc' = "Mkdir" /\ UNCHANGED <<uerr, openFiles>>
       ELSE Return("zip: not a valid zip file")
    /\ UNCHANGED <<body, projectName, privileged, fs0, idx, epc, openReaders,
                   rangeVars, formVars, uiVars>>

\* zipReader, err := zip.NewReader(...)
UnzipNewReader ==
    /\ upc = "NewReader"
    /\ IF body.valid
       THEN upc' = "Mkdir" /\ UNCHANGED <<uerr, openFiles>>
       ELSE Return("zip: not a valid zip file")
    /\ UNCHANGED <<body, projectName, privileged, fs0, fs, idx, epc,
                   openReaders, rangeVars, formVars, uiVars>>

\* os.Getwd() and os.Mkdir(filepath.Join(cwd, projectName), 0777)
UnzipMkdir ==
    /\ upc = "Mkdir"
    /\ LET made == Mkdir(fs, Target, RWX, privileged)
       IN  /\ fs' = made.fs
           /\ IF made.err # "nil"
              THEN Return(made.err) /\ idx' = idx
              ELSE upc' = "loop" /\ idx' = 1 /\ UNCHANGED <<uerr, openFiles>>
    /\ UNCHANGED <<body, projectName, privileged, fs0, epc, openReaders,
                   rangeVars, formVars, uiVars>>

\* The body of  for _, zf := range zipReader.File  runs call by call: the
\* process can end between two of them. With entry names of at most two
\* components below an existing target, os.MkdirAll makes at most one
\* directory, and io.Copy writes an entry's few bytes in one write.

\* the entry the loop is at
InLoopAt(pos) == upc = "loop" /\ idx <= Len(body.File) /\ epc = pos

\* zfReader, err := zf.Open()
UnzipOpen ==
    /\ InLoopAt("Open")
    /\ IF body.File[idx].Fault = "open"
       THEN /\ Return("zip: unsupported compression algorithm")
            /\ UNCHANGED <<epc, openReaders>>
       ELSE /\ openReaders' = openReaders \cup {idx}
            /\ epc' = "MkdirAll"
            /\ UNCHANGED <<upc, uerr, openFiles>>
    /\ UNCHANGED <<body, projectName, privileged, fs0, fs, idx,
                   rangeVars, formVars, uiVars>>

\* fpath is computed; os.MkdirAll(fpath, zf.Mode()) for a directory entry,
\* which ends the iteration, os.MkdirAll(filepath.Dir(fpath), zf.Mode())
\* for a file entry
UnzipMkdirAll ==
    /\ InLoopAt("MkdirAll")
    /\ LET zf == body.File[idx]
           made == MkdirAll(fs, IF IsDir(zf) THEN Fpath(zf) ELSE Parent(Fpath(zf)),
                            zf.Perm, privileged)
       IN  /\ fs' = made.fs
           /\ IF made.err # "nil"
              THEN Return(made.err) /\ UNCHANGED <<idx, epc>>
              ELSE /\ IF IsDir(zf)
                      THEN idx' = idx + 1 /\ epc' = "Open"
                      ELSE idx' = idx /\ epc' = "OpenFile"
                   /\ UNCHANGED <<upc, uerr, openFiles>>
    /\ UNCHANGED <<body, projectName, privileged, fs0, openReaders,
                   rangeVars, formVars, uiVars>>

\* f, err := os.OpenFile(fpath, O_WRONLY|O_CREATE|O_TRUNC, zf.Mode()) and
\* defer f.Close()
UnzipOpenFile ==
    /\ InLoopAt("OpenFile")
    /\ LET zf == body.File[idx]
           opened == OpenFile(fs, Fpath(zf), zf.Perm, privileged)
       IN  /\ fs' = opened.fs
           /\ IF opened.err # "nil"
              THEN Return(opened.err) /\ epc' = epc
              ELSE /\ openFiles' = openFiles \cup {idx}
                   /\ epc' = "Copy"
                   /\ UNCHANGED <<upc, uerr>>
    /\ UNCHANGED <<body, projectName, privileged, fs0, idx, openReaders,
                   rangeVars, formVars, uiVars>>

\* _, err = io.Copy(f, zfReader): the bytes the reader delivers are written,
\* a damaged entry fails its checksum at the end of them
UnzipCopy ==
    /\ InLoopAt("Copy")
    /\ LET zf == body.File[idx]
       IN  /\ fs' = Copy(fs, Fpath(zf), zf.Data)
           /\ IF zf.Fault = "read"
              THEN Return("zip: checksum error") /\ UNCHANGED <<idx, epc>>
              ELSE /\ idx' = idx + 1
                   /\ epc' = "Open"
                   /\ UNCHANGED <<upc, uerr, openFiles>>
    /\ UNCHANGED <<body, projectName, privileged, fs0, openReaders,
                   rangeVars, formVars, uiVars>>

\* return nil after the last entry
UnzipReturn ==
    /\ upc = "loop"
    /\ idx > Len(body.File)
    /\ Return("nil")
    /\ UNCHANGED <<body, projectName, privileged, fs0, fs, idx, epc,
                   openReaders, rangeVars, formVars, uiVars>>

UnzipNext ==
    \/ UnzipNewReader
    \/ UnzipMkdir
    \/ UnzipOpen
    \/ UnzipMkdirAll
    \/ UnzipOpenFile
    \/ UnzipCopy
    \/ UnzipReturn

SpecUnzip == UnzipInit /\ [][UnzipNext]_vars

-----------------------------------------------------------------------------
(* Claims about unzip, checked under SpecUnzip *)

Succeeded == upc = "returned" /\ uerr = "nil"

\* the entries resolve to pairwise distinct paths
DistinctPaths ==
    \A i, j \in 1..Len(body.File) :
        i # j => Fpath(body.File[i]) # Fpath(body.File[j])

\* p is the path of an entry or of a directory above one
OfAnEntry(p) == \E i \in 1..Len(body.File) : IsPrefix(p, Fpath(body.File[i]))

\* C8: when unzip succeeds on entries with distinct paths, every file entry
\* is a file at its path with exactly the entry's bytes, every directory
\* entry is a directory, and the only other nodes that are new or under the
\* target are the target and the directories above entries.
ExtractedTreeMatchesArchive ==
    (Succeeded /\ DistinctPaths) =>
        /\ \A i \in 1..Len(body.File) :
             LET zf == body.File[i]
                 p  == Fpath(zf)
             IN  /\ Exists(fs, p)
                 /\ IF IsDir(zf) THEN fs[p].kind = "dir"
                    ELSE fs[p].kind = "file" /\ fs[p].data = zf.Data
        /\ Exists(fs, Target) /\ fs[Target].kind = "dir"
        /\ \A p \in DOMAIN fs :
             (IsPrefix(Target, p) \/ p \notin DOMAIN fs0) =>
                 (p = Target \/ OfAnEntry(p))
        /\ DOMAIN fs0 \subseteq DOMAIN fs

\* C8's case: an unprivileged run succeeded on distinct paths with a
\* directory entry, a nested file and a file at the top
ExtractedNestedTree ==
    /\ Succeeded /\ DistinctPaths /\ ~privileged
    /\ \E i, j, k \in 1..Len(body.File) :
         /\ IsDir(body.File[i])
         /\ ~IsDir(body.File[j]) /\ Len(Fpath(body.File[j])) = Len(Target) + 2
         /\ ~IsDir(body.File[k]) /\ Len(Fpath(body.File[k])) = Len(Target) + 1

\* C9: if the target exists as a file or directory when unzip is called,
\* the filesystem is never changed, no entry is opened, and unzip returns an
\* error: "already exists" when the bytes are an archive.
ExistingTargetIsLeftAlone ==
    Exists(fs0, Target) =>
        /\ fs = fs0
        /\ openReaders = {} /\ openFiles = {}
        /\ upc = "returned" => uerr # "nil"
        /\ (upc = "returned" /\ body.valid) => uerr = "EEXIST"

\* C9's case: unzip returned on an archive with entries while the target
\* was an existing directory
ReturnedOnExistingTarget ==
    /\ upc = "returned"
    /\ Exists(fs0, Target) /\ fs0[Target].kind = "dir"
    /\ body.valid /\ Len(body.File) > 0

\* C10: on bytes that are no archive the filesystem is never changed and the
\* error is the reader's; the reader is opened before the target directory
\* is created, so nothing is on disk while the archive is unvalidated.
InvalidArchiveTouchesNothing ==
    /\ ~body.valid =>
         /\ fs = fs0
         /\ upc = "returned" => uerr = "zip: not a valid zip file"
    /\ upc = "NewReader" => fs = fs0

\* C10's case: unzip returned on bytes that are no archive, the target absent
ReturnedOnInvalidArchive ==
    /\ upc = "returned"
    /\ ~body.valid
    /\ ~Exists(fs0, Target) /\ ~Exists(fs, Target)

-----------------------------------------------------------------------------
(* The program's tea.Model: the form, the spinner and generateProject.      *)
(* A text is a sequence of tokens: " " is one space, "/" a separator, any   *)
(* other token a word without either.                                       *)

RECURSIVE TrimLeft(_)
TrimLeft(str) ==
    IF Len(str) > 0 /\ Head(str) = " " THEN TrimLeft(Tail(str)) ELSE str

RECURSIVE TrimRight(_)
TrimRight(str) ==
    IF Len(str) > 0 /\ str[Len(str)] = " "
    THEN TrimRight(SubSeq(str, 1, Len(str) - 1))
    ELSE str

\* strings.TrimSpace(str)
TrimSpace(str) == TrimRight(TrimLeft(str))

\* strings.Contains(str, " ")
ContainsSpace(str) == \E i \in 1..Len(str) : str[i] = " "

\* validate of newForm: its error, "nil" for none
validate(str) ==
    IF ContainsSpace(TrimSpace(str)) THEN "should not contain space" ELSE "nil"

RECURSIVE Walk(_, _, _, _)
\* path resolution as the kernel does it, without any cleaning of the text:
\* the components left are looked up one after the other from the existing
\* node at. A lookup needs a directory the process may search; ".." is the
\* parent of the node reached; an empty component (a leading, doubled or
\* trailing separator) needs a directory and stays in it.
Walk(f, at, comps, priv) ==
    IF Len(comps) = 0 THEN [err |-> "nil", path |-> at]
    ELSE LET c == Head(comps)
         IN  IF f[at].kind # "dir" THEN [err |-> "ENOTDIR", path |-> at]
             ELSE IF c = <<>> THEN Walk(f, at, Tail(comps), priv)
             ELSE IF ~(priv \/ "x" \in f[at].perm)
                  THEN [err |-> "EACCES", path |-> at]
             ELSE IF c = <<".">> THEN Walk(f, at, Tail(comps), priv)
             ELSE IF c = <<"..">> THEN Walk(f, Parent(at), Tail(comps), priv)
             ELSE IF ~Exists(f, at \o c) THEN [err |-> "ENOENT", path |-> at]
             ELSE Walk(f, at \o c, Tail(comps), priv)

\* os.Stat(str) on the text as it is: its errno, "nil" when a node is
\* found, and the path of that node. A relative text starts at the working
\* directory, one with a leading separator at the root; the empty text does
\* not exist.
StatName(f, str, priv) ==
    IF str = <<>> THEN [err |-> "ENOENT", path |-> Cwd]
    ELSE Walk(f, IF Head(str) = "/" THEN Root ELSE Cwd, Split(str, "/"), priv)

\* the errno of os.Stat(str)
StatErrno(f, str, priv) == StatName(f, str, priv).err

\* nameValidate of newForm: its error, "nil" for none, or "panic": when
\* os.Stat fails with an error other than "not exist", fs is nil and
\* fs.IsDir() dereferences it
nameValidate(f, str, priv) ==
    IF validate(str) # "nil" THEN validate(str)
    ELSE LET t == TrimSpace(str)
             e == StatErrno(f, t, priv)
         IN  IF e = "ENOENT" THEN "nil"
             ELSE IF e # "nil" THEN "panic"
             ELSE IF f[StatName(f, t, priv).path].kind = "dir"
                  THEN "a directory named X already exists"
                  ELSE "a file named X already exists"

\* data.Name.Default of the metadata
DefaultName == <<"demo">>

\* the texts the user leaves in the "Name of the project" input
Names ==
    {<<>>, <<" ">>, <<"proj">>, <<" ", "proj", " ">>, <<"my", " ", "proj">>,
     <<"demo">>, <<"x">>, <<"x", "/", "y">>,
     <<"x", "/">>, <<"x", "/", ".">>, <<"x", "/", "..">>,
     <<"demo", "/", "..">>, <<"nope", "/", "..", "/", "demo">>,
     <<"/", "cwd", "/", "demo">>, <<"/", "demo">>}

\* the working directories the program is started in: "demo" is there as a
\* directory or not, "proj" as a file or not, "x" as a file or not
UIFilesystems ==
    LET base == (Root :> DirNode(RWX)) @@ (Cwd :> DirNode(RWX))
    IN  {base @@ d @@ p @@ x :
           d \in {<<>>, (Cwd \o <<"demo">>) :> DirNode(RWX)},
           p \in {<<>>, (Cwd \o <<"proj">>) :> FileNode(RW, <<9>>)},
           x \in {<<>>, (Cwd \o <<"x">>) :> FileNode(RW, <<9, 9>>)}}

\* the bodies the generator service answers with
UIBodies ==
    {NotAZip,
     [valid |-> TRUE, File |-> <<Entry(<<"a.txt">>, RW, <<1>>, "none")>>],
     [valid |-> TRUE,
      File |-> <<Entry(<<"dir", "/">>, RWX, <<>>, "none"),
                 Entry(<<"dir", "/", "b.txt">>, RW, <<2, 2>>, "none")>>]}

\* what getProjectZip returns: a failed request, or a response with a
\* status inside or outside 2xx, its body not yet read
Responses ==
    {Response("connection refused", 0, "nil", NotAZip)}
      \cup {Response("nil", st, "nil", NotAZip) : st \in {199, 200, 299, 300}}

\* what io.ReadAll(resp.Body) returns: an error, or the body read in full
Reads ==
    {[err |-> "unexpected EOF", body |-> NotAZip]}
      \cup {[err |-> "nil", body |-> b] : b \in UIBodies}

\* the messages delivered to Update
KeyCtrlC == [type |-> "KeyMsg", key |-> "ctrl+c", text |-> <<>>, err |-> "nil"]
KeyEnter == [type |-> "KeyMsg", key |-> "enter", text |-> <<>>, err |-> "nil"]

\* the keys typed into the name input that leave text in it
KeyRunes(text) == [type |-> "KeyMsg", key |-> "runes", text |-> text, err |-> "nil"]

TickMsg == [type |-> "TickMsg", key |-> "", text |-> <<>>, err |-> "nil"]
errMsg(err) == [type |-> "errMsg", key |-> "", text |-> <<>>, err |-> err]

KeyMsgs == {KeyCtrlC, KeyEnter} \cup {KeyRunes(t) : t \in Names}

\* newModel(data, client), in a working directory
UIInit ==
    /\ RangeIdle
    /\ FormIdle
    /\ upc = "off" /\ body = NotAZip /\ projectName = <<>>
    /\ privileged \in BOOLEAN
    /\ fs \in UIFilesystems
    /\ fs0 = fs
    /\ idx = 0 /\ epc = "Open" /\ uerr = "nil"
    /\ openReaders = {} /\ openFiles = {}
    /\ state = "stateForm"
    /\ formState = "normal"
    /\ infoName = <<>>
    /\ nameErr = "unvalidated"
    /\ isQuitting = FALSE
    /\ finalMsg = ""
    /\ quitIssued = FALSE
    /\ run = "running"
    /\ ticks = 0
    /\ gpc = "idle"
    /\ resp = NoResponse
    /\ genErr = "nil"
    /\ starts = 0
    /\ unzips = 0

\* m.form.Update(msg) of huh, as far as the name input goes: typing sets
\* info.name; enter validates the input, and once the name is accepted
\* enter on the fields after it completes the form. The result is the
\* form state, the name, what the validation said, and whether it panicked.
FormUpdate(msg) ==
    IF msg.type = "KeyMsg" /\ msg.key = "runes"
    THEN [State |-> formState, name |-> msg.text, err |-> "unvalidated"]
    ELSE IF msg.type = "KeyMsg" /\ msg.key = "enter"
    THEN IF nameErr = "nil"
         THEN [State |-> "completed", name |-> infoName, err |-> nameErr]
         ELSE [State |-> formState, name |-> infoName,
               err |-> nameValidate(fs, infoName, privileged)]
    ELSE [State |-> formState, name |-> infoName, err |-> nameErr]

\* m.spinner.Update that issues no further tick
SpinnerUpdateWithoutTick(msg) == 0

\* m.spinner.Update(msg): the number of tick commands it returns, one for
\* a TickMsg of this spinner and none for any other message
SpinnerUpdate(msg) == IF msg.type = "TickMsg" THEN 1 ELSE 0

\* Update that stays in stateForm when the form completes
UpdateStaysInForm(msg) ==
    /\ run = "running"
    /\ LET form == FormUpdate(msg)
       IN  /\ formState' = form.State
           /\ infoName' = form.name
           /\ nameErr' = form.err
           /\ IF form.State = "completed"
              THEN /\ ticks' = ticks + 1
                   /\ gpc' = "issued"
                   /\ starts' = starts + 1
              ELSE UNCHANGED <<ticks, gpc, starts>>
           /\ UNCHANGED <<state, isQuitting, finalMsg, quitIssued, run, genErr>>
    /\ UNCHANGED <<resp, unzips, rangeVars, formVars, unzipVars>>

\* func (m model) Update(msg tea.Msg), called by the event loop while the
\* program runs: the model it returns and the commands it issues. tea.Quit
\* is a command like the others: Update returns it and the event loop goes
\* on until its QuitMsg comes back. Delivering a TickMsg or an errMsg uses
\* up the command that sent it.
Update(msg) ==
    /\ run = "running"
    /\ LET used == IF msg.type = "TickMsg" THEN 1 ELSE 0
           gpcAfter == IF msg.type = "errMsg" THEN "delivered" ELSE gpc
       IN
       IF msg.type = "KeyMsg" /\ msg.key = "ctrl+c"
       THEN /\ isQuitting' = TRUE
            /\ quitIssued' = TRUE
            /\ ticks' = ticks - used
            /\ gpc' = gpcAfter
            /\ UNCHANGED <<state, formState, infoName, nameErr, finalMsg,
                           run, genErr, starts>>
       ELSE IF state = "stateForm"
       THEN LET form == FormUpdate(msg)
            IN  /\ formState' = form.State
                /\ infoName' = form.name
                /\ nameErr' = form.err
                /\ run' = IF form.err = "panic" THEN "panicked" ELSE run
                /\ IF form.State = "completed"
                   THEN /\ state' = "stateSpinner"
                        /\ ticks' = ticks - used + 1
                        /\ gpc' = "issued"
                        /\ starts' = starts + 1
                   ELSE /\ state' = state
                        /\ ticks' = ticks - used
                        /\ gpc' = gpcAfter
                        /\ starts' = starts
                /\ UNCHANGED <<isQuitting, finalMsg, quitIssued, genErr>>
       ELSE IF state = "stateSpinner"
       THEN IF msg.type = "errMsg"
            THEN /\ finalMsg' = IF msg.err = "nil"
                                THEN "Project generated successfully!"
                                ELSE msg.err
                 /\ state' = "stateDone"
                 /\ ticks' = ticks - used
                 /\ gpc' = gpcAfter
                 /\ UNCHANGED <<formState, infoName, nameErr, isQuitting,
                                quitIssued, run, genErr, starts>>
            ELSE /\ ticks' = ticks - used + SpinnerUpdate(msg)
                 /\ gpc' = gpcAfter
                 /\ UNCHANGED <<state, formState, infoName, nameErr,
                                isQuitting, finalMsg, quitIssued, run,
                                genErr, starts>>
       ELSE \* stateDone
            /\ quitIssued' = TRUE
            /\ ticks' = ticks - used
            /\ gpc' = gpcAfter
            /\ UNCHANGED <<state, formState, infoName, nameErr, isQuitting,
                           finalMsg, run, genErr, starts>>
    /\ UNCHANGED <<resp, unzips, rangeVars, formVars, unzipVars>>

\* the user presses keys
KeyPressed == \E msg \in KeyMsgs : Update(msg)

\* a spinner tick command delivers its TickMsg
TickDelivered == ticks > 0 /\ Update(TickMsg)

\* the command of generateProject delivers its errMsg
ErrMsgDelivered == gpc = "returned" /\ Update(errMsg(genErr))

\* the QuitMsg of a tea.Quit command reaches the event loop: the loop ends,
\* program.Run() returns and main returns, which ends the process and the
\* commands still running in it
QuitMsgHandled ==
    /\ run = "running"
    /\ quitIssued
    /\ run' = "quit"
    /\ UNCHANGED <<state, formState, infoName, nameErr, isQuitting, finalMsg,
                   quitIssued, ticks, gpc, resp, genErr, starts, unzips,
                   rangeVars, formVars, unzipVars>>

\* the command generateProject returned is run by the program beside the
\* event loop, as long as the process lives. Its start: the name is trimmed,
\* a blank one replaced by the default, and the request is sent
GenerateProject ==
    /\ run = "running"
    /\ gpc = "issued"
    /\ LET trimmed == TrimSpace(infoName)
       IN  infoName' = IF Len(trimmed) = 0 THEN DefaultName ELSE trimmed
    /\ gpc' = "request"
    /\ UNCHANGED <<state, formState, nameErr, isQuitting, finalMsg,
                   quitIssued, run, ticks, resp, genErr, starts, unzips,
                   rangeVars, formVars, unzipVars>>

\* getProjectZip returns: a request error or a status outside 2xx is
\* returned as an errMsg, a 2xx response goes on to io.ReadAll
GetProjectZipReturns ==
    /\ run = "running"
    /\ gpc = "request"
    /\ \E r \in Responses :
         /\ resp' = r
         /\ LET ok == r.StatusCode >= 200 /\ r.StatusCode < 300
            IN  IF r.err # "nil"
                THEN gpc' = "returned" /\ genErr' = r.err
                ELSE IF ~ok
                THEN gpc' = "returned" /\ genErr' = "failed to generate project"
                ELSE gpc' = "read" /\ genErr' = genErr
    /\ UNCHANGED <<state, formState, infoName, nameErr, isQuitting, finalMsg,
                   quitIssued, run, ticks, starts, unzips,
                   rangeVars, formVars, unzipVars>>

\* io.ReadAll(resp.Body) returns: its error is returned as an errMsg, a
\* body read in full is handed to unzip(body, m.info.name)
ReadAllReturns ==
    /\ run = "running"
    /\ gpc = "read"
    /\ \E rd \in Reads :
         /\ resp' = [resp EXCEPT !.readErr = rd.err, !.body = rd.body]
         /\ IF rd.err # "nil"
            THEN /\ gpc' = "returned" /\ genErr' = rd.err
                 /\ UNCHANGED <<unzips, unzipVars>>
            ELSE /\ gpc' = "unzip"
                 /\ genErr' = genErr
                 /\ unzips' = unzips + 1
                 /\ upc' = "NewReader"
                 /\ body' = rd.body
                 /\ projectName' = infoName
                 /\ fs0' = fs
                 /\ idx' = 0 /\ epc' = "Open" /\ uerr' = "nil"
                 /\ openReaders' = {} /\ openFiles' = {}
                 /\ UNCHANGED <<privileged, fs>>
    /\ UNCHANGED <<state, formState, infoName, nameErr, isQuitting, finalMsg,
                   quitIssued, run, ticks, starts, rangeVars, formVars>>

\* a step of unzip inside the command
UnzipInCommand == run = "running" /\ gpc = "unzip" /\ UnzipNext

\* unzip returned to generateProject, which returns errMsg{err}
GenerateProjectReturn ==
    /\ run = "running"
    /\ gpc = "unzip"
    /\ upc = "returned"
    /\ gpc' = "returned"
    /\ genErr' = uerr
    /\ UNCHANGED <<state, formState, infoName, nameErr, isQuitting, finalMsg,
                   quitIssued, run, ticks, resp, starts, unzips,
                   rangeVars, formVars, unzipVars>>

UINext ==
    \/ KeyPressed
    \/ TickDelivered
    \/ ErrMsgDelivered
    \/ QuitMsgHandled
    \/ GenerateProject
    \/ GetProjectZipReturns
    \/ ReadAllReturns
    \/ UnzipInCommand
    \/ GenerateProjectReturn

SpecUI == UIInit /\ [][UINext]_vars

\* the steps of the loop of unzip: a call of its body, or leaving the loop
LoopStep ==
    upc = "loop" /\ <<idx, epc, upc, fs>>' # <<idx, epc, upc, fs>>

\* weak fairness of the calls of the loop body inside the command, written
\* out: one of them is enabled exactly while the process lives and the loop
\* has an entry left, and every step of theirs is a LoopStep
UnzipEntryRuns ==
    \/ []<>~(run = "running" /\ upc = "loop" /\ idx <= Len(body.File))
    \/ []<><<LoopStep>>_vars

\* the program's scheduling: a command that was issued runs, the command of
\* generateProject and its unzip run to their return unless the process
\* ends first, and the message a command returns is delivered to the event
\* loop; the user owes no key
SpecUIFair ==
    /\ SpecUI
    /\ WF_vars(GenerateProject)
    /\ WF_vars(GetProjectZipReturns)
    /\ WF_vars(ReadAllReturns)
    /\ WF_vars(run = "running" /\ UnzipNewReader)
    /\ WF_vars(run = "running" /\ UnzipMkdir)
    /\ UnzipEntryRuns
    /\ WF_vars(run = "running" /\ UnzipReturn)
    /\ WF_vars(GenerateProjectReturn)
    /\ WF_vars(ErrMsgDelivered)
    /\ WF_vars(TickDelivered)
    /\ WF_vars(QuitMsgHandled)

-----------------------------------------------------------------------------
(* Claims about the tea.Model, checked under SpecUI *)

\* C11: whenever generateProject has called unzip, the directory name it
\* passed (the trimmed name, or the default name for a blank one) names
\* nothing in the working directory: the name validation of the form has
\* rejected every name of an existing file or directory before.
TargetWasValidatedAbsent ==
    unzips > 0 => ~Exists(fs0, Target)

\* generateProject has been issued at most once, and unzip called at most
\* once, by it, on a 2xx response whose body was read without error
OnceAndAfterSuccess ==
    /\ starts <= 1
    /\ unzips <= starts
    /\ (starts = 1) = (state # "stateForm")
    /\ (starts = 1) = (gpc # "idle")
    /\ unzips > 0 =>
         /\ resp.err = "nil"
         /\ resp.StatusCode >= 200 /\ resp.StatusCode < 300
         /\ resp.readErr = "nil"
         /\ body = resp.body
         /\ gpc \in {"unzip", "returned", "delivered"}
    /\ upc # "off" => unzips = 1
    /\ (gpc \in {"returned", "delivered"} /\ unzips = 0) =>
         genErr \in {resp.err, "failed to generate project", resp.readErr} \ {"nil"}

\* generateProject is issued by the step from stateForm to stateSpinner on a
\* completed form and by no other, and the state never returns to stateForm
StartsAtTheTransition ==
    /\ (starts' # starts) =
         (state = "stateForm" /\ state' = "stateSpinner"
            /\ formState' = "completed" /\ starts' = starts + 1)
    /\ (unzips' # unzips) => (gpc = "read" /\ unzips' = unzips + 1)
    /\ state # "stateForm" => state' # "stateForm"
    /\ state = "stateDone" => state' = "stateDone"

\* C12: generation is started at most once, exactly at the step from
\* stateForm to stateSpinner on a completed form; unzip is called at most
\* once, only after a 2xx response whose body was read in full, never after
\* a request error or another status; the state never returns to stateForm.
GenerationAndUnzipAtMostOnce ==
    []OnceAndAfterSuccess /\ [][StartsAtTheTransition]_vars

\* C12's case: the program quit from stateDone after a run that called unzip,
\* with keys pressed after the form completed
QuitAfterOneUnzip ==
    /\ run = "quit" /\ state = "stateDone"
    /\ starts = 1 /\ unzips = 1 /\ gpc = "delivered"

-----------------------------------------------------------------------------
(* Further claims about unzip, checked under SpecUnzip *)

\* an undamaged entry with a relative name without ".."
Plain(zf) ==
    /\ zf.Fault = "none"
    /\ zf.Name[1] # "/"
    /\ \A i \in 1..Len(zf.Name) : zf.Name[i] # ".."

\* every entry is plain, and no file entry lies at or above another entry
WellFormedArchive ==
    /\ \A i \in 1..Len(body.File) : Plain(body.File[i])
    /\ \A i, j \in 1..Len(body.File) :
         (i # j /\ ~IsDir(body.File[i])) =>
             ~IsPrefix(Fpath(body.File[i]), Fpath(body.File[j]))
    /\ DistinctPaths

\* C13: on a well-formed zip archive and an absent target unzip succeeds
\* whatever the order of a directory's entry and the files inside it, and
\* also when the directory has no entry; every directory that has an entry
\* ends up with the permission bits of that entry.
OrderIndependentExtraction ==
    (upc = "returned" /\ body.valid /\ ~Exists(fs0, Target)
                      /\ WellFormedArchive) =>
        /\ uerr = "nil"
        /\ \A i \in 1..Len(body.File) :
             IsDir(body.File[i]) =>
                 /\ Exists(fs, Fpath(body.File[i]))
                 /\ fs[Fpath(body.File[i])].kind = "dir"
                 /\ fs[Fpath(body.File[i])].perm = body.File[i].Perm

\* C14: when unzip has returned, with nil or with an error, no reader of an
\* entry and no output file is open.
HandlesReleasedOnReturn ==
    upc = "returned" => (openReaders = {} /\ openFiles = {})

\* C15: every node unzip has created, truncated or written lies at or below
\* the target directory; the nodes outside it are as they were.
WritesStayInsideTarget ==
    \A p \in DOMAIN fs :
        (p \notin DOMAIN fs0 \/ fs[p] # fs0[p]) => IsPrefix(Target, p)

-----------------------------------------------------------------------------
(* Termination of the tea.Model, checked under SpecUIFair *)

\* a spinner tick is pending whenever the model is in stateSpinner
TickPendingInSpinner == state = "stateSpinner" => ticks > 0

\* in stateDone finalMsg tells the err of the errMsg
FinalMsgTellsTheErr ==
    state = "stateDone" =>
        finalMsg = IF genErr = "nil" THEN "Project generated successfully!"
                   ELSE genErr

\* the errMsg of generateProject was handled in stateSpinner, which led to
\* stateDone
DeliveredInDone == gpc = "delivered" => state = "stateDone"

\* C16: in every run in which the command of generateProject returns and
\* its errMsg is delivered, the model reaches stateDone with finalMsg set
\* ("Project generated successfully!" exactly when the error is nil, else
\* the error text), also when ctrl+c was pressed before; from stateDone the
\* program quits, since a tick is pending throughout stateSpinner and the
\* next message in stateDone returns Quit.
CompletedFormReachesDone ==
    /\ [](TickPendingInSpinner /\ FinalMsgTellsTheErr /\ DeliveredInDone)
    /\ <>(gpc = "delivered")
         => ((state = "stateSpinner") ~> (state = "stateDone"))
    /\ (state = "stateDone") ~> (run = "quit")

\* C16's case: the program quit from stateDone after a successful
\* generation, without ctrl+c
QuitAfterSuccess ==
    /\ run = "quit" /\ state = "stateDone" /\ ~isQuitting
    /\ finalMsg = "Project generated successfully!"
    /\ uerr = "nil" /\ upc = "returned"

=============================================================================
